---- MODULE Spec2Model ----
(***************************************************************************)
(* cupid-8: a CHIP-8 / SCHIP interpreter (src/src/cupid-8.c).              *)
(*                                                                         *)
(* The machine state is the global `chip8` struct plus the display-mode    *)
(* globals.  One cycle of the interpreter (emulateCycle) is one action;    *)
(* the main loop's event polling and its 16 ms timer tick are actions of   *)
(* their own.  Large arrays (memory, display) are kept sparse: a function  *)
(* from the indices that hold a non-zero byte to that byte.                *)
(***************************************************************************)
EXTENDS Integers, Sequences, FiniteSets, TLC

\* ------------------------------------------------------------ constants
MEMORY_SIZE == 4096
REGISTER_COUNT == 16
STACK_SIZE == 16
NORMAL_WIDTH == 64
NORMAL_HEIGHT == 32
EXT_WIDTH == 128
EXT_HEIGHT == 64
MAX_WIDTH == EXT_WIDTH
MAX_HEIGHT == EXT_HEIGHT
START_ADDRESS == 512
\* 0x50: where initializeChip8 copies the font, and the base Fx29 uses.
FONT_ADDRESS == 80

\* ------------------------------------------------------------ bounds
\* The input source presses and releases the keys of keypad codes 0..MaxKey.
MaxKey == 0
\* While a program waits for a key, the keys of codes 0..MaxWaitKey.
MaxWaitKey == 1
\* A process is followed through at most MaxUndefined undefined accesses.
MaxUndefined == 1
\* Bytes an out-of-bounds read may return (representatives: no bit set,
\* the two outer bits set, every bit set).
UBBytes == {0, 129, 255}
\* Return addresses an out-of-bounds read of the call stack may return.
UBWords == {512, 514}
\* Bytes rand() % 256 may return.
RandBytes == {0, 165, 255}

\* ------------------------------------------------------------ bit helpers
RECURSIVE BitAnd(_, _)
BitAnd(a, b) ==
    IF a = 0 \/ b = 0 THEN 0
    ELSE (a % 2) * (b % 2) + 2 * BitAnd(a \div 2, b \div 2)

RECURSIVE BitOr(_, _)
BitOr(a, b) ==
    IF a = 0 THEN b
    ELSE IF b = 0 THEN a
    ELSE (IF a % 2 = 1 \/ b % 2 = 1 THEN 1 ELSE 0) + 2 * BitOr(a \div 2, b \div 2)

RECURSIVE BitXor(_, _)
BitXor(a, b) ==
    IF a = 0 THEN b
    ELSE IF b = 0 THEN a
    ELSE ((a + b) % 2) + 2 * BitXor(a \div 2, b \div 2)

RECURSIVE Pow2(_)
Pow2(k) == IF k = 0 THEN 1 ELSE 2 * Pow2(k - 1)

\* a >> k and (uint8_t)(a << k)
Shr(a, k) == a \div Pow2(k)
Shl8(a, k) == (a * Pow2(k)) % 256

\* uint8_t / uint16_t wraparound
U8(v) == (v + 256) % 256
U16(v) == (v + 65536) % 65536

\* ------------------------------------------------------------ sparse arrays
\* A zero-initialised C array, kept as the function from the indices that
\* hold a non-zero byte to that byte.
Get(arr, i) == IF i \in DOMAIN arr THEN arr[i] ELSE 0

Put(arr, i, v) ==
    IF v = 0
    THEN [j \in (DOMAIN arr) \ {i} |-> arr[j]]
    ELSE [j \in (DOMAIN arr) \cup {i} |-> IF j = i THEN v ELSE arr[j]]

Zeroed == [j \in {} |-> 0]

\* ------------------------------------------------------------ font
chip8_fontset ==
    << \hF0, \h90, \h90, \h90, \hF0,
       \h20, \h60, \h20, \h20, \h70,
       \hF0, \h10, \hF0, \h80, \hF0,
       \hF0, \h10, \hF0, \h10, \hF0,
       \h90, \h90, \hF0, \h10, \h10,
       \hF0, \h80, \hF0, \h10, \hF0,
       \hF0, \h80, \hF0, \h90, \hF0,
       \hF0, \h10, \h20, \h40, \h40,
       \hF0, \h90, \hF0, \h90, \hF0,
       \hF0, \h90, \hF0, \h10, \hF0,
       \hF0, \h90, \hF0, \h90, \h90,
       \hE0, \h90, \hE0, \h90, \hE0,
       \hF0, \h80, \h80, \h80, \hF0,
       \hE0, \h90, \h90, \h90, \hE0,
       \hF0, \h80, \hF0, \h80, \hF0,
       \hF0, \h80, \hF0, \h80, \h80 >>

\* ------------------------------------------------------------ state
VARIABLES
    chip8,          \* the Chip8 struct: memory, V, I, pc, stack, sp, timers, display, keys
    extended_mode,  \* 0 = normal, 1 = extended
    screen_width,   \* logical width of the display
    screen_height,  \* logical height of the display
    fg,             \* foreground colour <<r, g, b>>
    bg,             \* background colour <<r, g, b>>
    running,        \* main's loop flag
    phase,          \* where the process is: "load", "loop", "keywait", "keydrain", "timer", "exited", "crashed"
    exit_code,      \* the process's exit status once phase = "exited", -1 before
    opcode,         \* emulateCycle's local: the word fetched by the latest cycle
    before,         \* history: chip8 as it was when the latest cycle began
    calls,          \* history: the addresses of the 2nnn instructions not yet returned from
    ub,             \* history: the number of undefined (out-of-bounds) accesses made
    audio,          \* the audio thread: "callback" while audio_callback runs, else
                    \* what its latest run wrote to the stream, "silence" or "tone"
    latest,         \* history: per keypad key, the latest event delivered for it
    image           \* history: the bytes of the ROM file given to loadROM

vars == << chip8, extended_mode, screen_width, screen_height, fg, bg,
           running, phase, exit_code, opcode, before, calls, ub,
           audio, latest, image >>

\* The display-mode globals, passed around as one record.
Mode == [ extended_mode |-> extended_mode,
          screen_width  |-> screen_width,
          screen_height |-> screen_height,
          fg |-> fg, bg |-> bg ]

\* Mutant of NormalMode: the logical width stays that of extended mode.
NormalMode_wide == [ extended_mode |-> 0,
                     screen_width  |-> EXT_WIDTH,
                     screen_height |-> NORMAL_HEIGHT,
                     fg |-> <<255, 255, 255>>, bg |-> <<0, 0, 0>> ]

NormalMode == [ extended_mode |-> 0,
                screen_width  |-> NORMAL_WIDTH,
                screen_height |-> NORMAL_HEIGHT,
                fg |-> <<255, 255, 255>>, bg |-> <<0, 0, 0>> ]

ExtendedMode == [ extended_mode |-> 1,
                  screen_width  |-> EXT_WIDTH,
                  screen_height |-> EXT_HEIGHT,
                  fg |-> <<0, 255, 255>>, bg |-> <<0, 0, 128>> ]

\* ------------------------------------------------------------ initialisation
initializeChip8 ==
    [ pc          |-> START_ADDRESS,
      I           |-> 0,
      sp          |-> 0,
      memory      |-> [a \in FONT_ADDRESS .. (FONT_ADDRESS + Len(chip8_fontset) - 1)
                          |-> chip8_fontset[a - FONT_ADDRESS + 1]],
      V           |-> [r \in 0 .. (REGISTER_COUNT - 1) |-> 0],
      stack       |-> [s \in 0 .. (STACK_SIZE - 1) |-> 0],
      display     |-> Zeroed,
      keys        |-> [k \in 0 .. 15 |-> 0],
      delay_timer |-> 0,
      sound_timer |-> 0 ]

\* Mutant of RomTooLarge: an image that fills memory exactly is refused too.
RomTooLarge_atLimit(rom) == Len(rom) >= MEMORY_SIZE - START_ADDRESS

\* loadROM's size test: the image is refused when it does not fit.
RomTooLarge(rom) == Len(rom) > MEMORY_SIZE - START_ADDRESS

\* loadROM's fread: the image's bytes land at START_ADDRESS.
loadROM(c, rom) ==
    LET img == { a \in START_ADDRESS .. (START_ADDRESS + Len(rom) - 1) :
                     rom[a - START_ADDRESS + 1] # 0 }
        old == { a \in DOMAIN c.memory :
                     a < START_ADDRESS \/ a >= START_ADDRESS + Len(rom) }
    IN [c EXCEPT !.memory =
           [a \in img \cup old |->
               IF a \in img THEN rom[a - START_ADDRESS + 1] ELSE c.memory[a]]]

\* ------------------------------------------------------------ memory access
\* A read of memory[a]: the byte when a is inside the array; past its end
\* the read is undefined and may return any byte.
ReadMem(c, a) == IF a < MEMORY_SIZE THEN {Get(c.memory, a)} ELSE UBBytes

\* The byte offsets of the fields that follow memory[] in the Chip8 struct,
\* laid out in declaration order (no padding is needed between them).
V_OFFSET       == MEMORY_SIZE
I_OFFSET       == V_OFFSET + REGISTER_COUNT
PC_OFFSET      == I_OFFSET + 2
STACK_OFFSET   == PC_OFFSET + 2
SP_OFFSET      == STACK_OFFSET + 2 * STACK_SIZE
DELAY_OFFSET   == SP_OFFSET + 1
SOUND_OFFSET   == DELAY_OFFSET + 1
DISPLAY_OFFSET == SOUND_OFFSET + 1
KEYS_OFFSET    == DISPLAY_OFFSET + MAX_WIDTH * MAX_HEIGHT
STRUCT_SIZE    == KEYS_OFFSET + 16

\* A 16-bit field with one of its bytes replaced (the low byte comes first).
WithByte(word, hi, v) ==
    IF hi THEN v * 256 + (word % 256) ELSE (word \div 256) * 256 + v

\* The byte v stored at offset off of the struct, past memory[]: it lands
\* in the field laid out there.  Past the struct nothing modelled changes.
StoreField(c, off, v) ==
    IF off < I_OFFSET            THEN [c EXCEPT !.V[off - V_OFFSET] = v]
    ELSE IF off < PC_OFFSET      THEN [c EXCEPT !.I = WithByte(@, off > I_OFFSET, v)]
    ELSE IF off < STACK_OFFSET   THEN [c EXCEPT !.pc = WithByte(@, off > PC_OFFSET, v)]
    ELSE IF off < SP_OFFSET
         THEN [c EXCEPT !.stack[(off - STACK_OFFSET) \div 2] =
                           WithByte(@, (off - STACK_OFFSET) % 2 = 1, v)]
    ELSE IF off = SP_OFFSET      THEN [c EXCEPT !.sp = v]
    ELSE IF off = DELAY_OFFSET   THEN [c EXCEPT !.delay_timer = v]
    ELSE IF off = SOUND_OFFSET   THEN [c EXCEPT !.sound_timer = v]
    ELSE IF off < KEYS_OFFSET    THEN [c EXCEPT !.display = Put(@, off - DISPLAY_OFFSET, v)]
    ELSE IF off < STRUCT_SIZE    THEN [c EXCEPT !.keys[off - KEYS_OFFSET] = v]
    ELSE c

\* A store memory[a] = v.  Past the end of the array the store is undefined:
\* with stray = "adjacent" it lands in the field that lies at that offset
\* in the struct, with stray = "lost" it has no effect on the modelled
\* state.
StoreMem(c, a, v, stray) ==
    IF a < MEMORY_SIZE
    THEN [c EXCEPT !.memory = Put(@, a, v)]
    ELSE IF stray = "adjacent" THEN StoreField(c, a, v) ELSE c

StrayKinds == {"adjacent", "lost"}

\* Fetch the next opcode (16 bits) from memory.
fetchOpcode(c) ==
    { hi * 256 + lo : hi \in ReadMem(c, c.pc), lo \in ReadMem(c, c.pc + 1) }

\* ------------------------------------------------------------ display helpers
ColOf(idx) == idx % MAX_WIDTH
RowOf(idx) == idx \div MAX_WIDTH
InRegion(idx, m) == ColOf(idx) < m.screen_width /\ RowOf(idx) < m.screen_height

\* Mutant of Shifted: cells moved out of the region come back in on the
\* opposite side.
Shifted_wrapping(d, m, dx, dy) ==
    LET keep  == { i \in DOMAIN d : ~InRegion(i, m) }
        moved == { i \in DOMAIN d : InRegion(i, m) }
        to(i) == ((RowOf(i) + dy) % m.screen_height) * MAX_WIDTH
                    + ((ColOf(i) + dx) % m.screen_width)
    IN [ j \in keep \cup { to(i) : i \in moved } |->
            IF j \in keep THEN d[j] ELSE 1 ]

\* The cells of the logical region moved by (dx, dy); cells moved out of the
\* region are dropped, vacated cells are 0, cells outside the region stay.
Shifted(d, m, dx, dy) ==
    LET keep  == { i \in DOMAIN d : ~InRegion(i, m) }
        moved == { i \in DOMAIN d :
                      /\ InRegion(i, m)
                      /\ ColOf(i) + dx >= 0 /\ ColOf(i) + dx < m.screen_width
                      /\ RowOf(i) + dy >= 0 /\ RowOf(i) + dy < m.screen_height }
        off   == dy * MAX_WIDTH + dx
    IN [ j \in keep \cup { i + off : i \in moved } |->
            IF j \in keep THEN d[j] ELSE d[j - off] ]

\* Helper: scroll display horizontally by 4 cells.
scroll_horizontal(c, m, direction) ==
    [c EXCEPT !.display = Shifted(@, m, IF direction > 0 THEN 4 ELSE -4, 0)]

\* Helper: scroll display down by n rows.
scroll_down(c, m, n) ==
    [c EXCEPT !.display = Shifted(@, m, 0, n)]

\* ------------------------------------------------------------ instructions
\* 00EE: return from subroutine.  { <<chip8 after, crashed>> }
op_00EE(c) ==
    LET sp1 == U8(c.sp - 1)
    IN IF sp1 < STACK_SIZE
       THEN { [c |-> [c EXCEPT !.sp = sp1, !.pc = c.stack[sp1]], ctl |-> "ret"] }
       ELSE { [c |-> [c EXCEPT !.sp = sp1, !.pc = w], ctl |-> "ret"] : w \in UBWords }
            \cup { [c |-> c, ctl |-> "crash"] }

\* Mutant of op_2nnn: the address of the call itself is pushed, not the
\* address of the instruction after it.
op_2nnn_callsite(c, nnn) ==
    { [c |-> [c EXCEPT !.stack[c.sp % STACK_SIZE] = U16(c.pc - 2),
                       !.sp = U8(c.sp + 1), !.pc = nnn],
       ctl |-> "ret"] }

\* 2nnn: call subroutine.  A store to stack[sp] with sp past the array is
\* undefined: it may fault, or land on what follows stack[] in the struct.
\* stack[16] lies on sp, delay_timer and sound_timer, each of which then
\* holds its old value or a byte of the stored word; a slot further on lies
\* on sound_timer and the display.
op_2nnn(c, nnn) ==
    IF c.sp < STACK_SIZE
    THEN { [c |-> [c EXCEPT !.stack[c.sp] = c.pc, !.sp = U8(c.sp + 1), !.pc = nnn],
            ctl |-> "ret"] }
    ELSE IF c.sp = STACK_SIZE
    THEN LET bytes == { c.pc % 256, c.pc \div 256 }
         IN { [c |-> [c EXCEPT !.sp = U8(s + 1), !.delay_timer = d,
                               !.sound_timer = t, !.pc = nnn],
               ctl |-> "ret"] :
                 s \in {c.sp} \cup bytes,
                 d \in {c.delay_timer} \cup bytes,
                 t \in {c.sound_timer} \cup bytes }
            \cup { [c |-> c, ctl |-> "crash"] }
    ELSE LET lo == StoreField(c, STACK_OFFSET + 2 * c.sp, c.pc % 256)
             hi == StoreField(lo, STACK_OFFSET + 2 * c.sp + 1, c.pc \div 256)
         IN { [c |-> [hi EXCEPT !.sp = U8(c.sp + 1), !.pc = nnn], ctl |-> "ret"],
              [c |-> c, ctl |-> "crash"] }

skipIf(c, cond) == IF cond THEN [c EXCEPT !.pc = U16(@ + 2)] ELSE c

op_6xkk(c, x, kk) == [c EXCEPT !.V[x] = kk]

\* Mutant of op_7xkk: the sum is not reduced to 8 bits.
op_7xkk_unwrapped(c, x, kk) == [c EXCEPT !.V[x] = @ + kk]

op_7xkk(c, x, kk) == [c EXCEPT !.V[x] = U8(@ + kk)]

op_8xy4(c, x, y) ==
    LET sum == c.V[x] + c.V[y]
        c1  == [c EXCEPT !.V[15] = IF sum > 255 THEN 1 ELSE 0]
    IN [c1 EXCEPT !.V[x] = BitAnd(sum, \hFF)]

op_8xy5(c, x, y) ==
    LET c1 == [c EXCEPT !.V[15] = IF c.V[x] > c.V[y] THEN 1 ELSE 0]
    IN [c1 EXCEPT !.V[x] = U8(c1.V[x] - c1.V[y])]

op_8xy6(c, x) ==
    LET c1 == [c EXCEPT !.V[15] = BitAnd(c.V[x], 1)]
    IN [c1 EXCEPT !.V[x] = Shr(c1.V[x], 1)]

op_8xy7(c, x, y) ==
    LET c1 == [c EXCEPT !.V[15] = IF c.V[y] > c.V[x] THEN 1 ELSE 0]
    IN [c1 EXCEPT !.V[x] = U8(c1.V[y] - c1.V[x])]

op_8xyE(c, x) ==
    LET c1 == [c EXCEPT !.V[15] = Shr(BitAnd(c.V[x], \h80), 7)]
    IN [c1 EXCEPT !.V[x] = Shl8(c1.V[x], 1)]

op_8xyn(c, x, y, n) ==
    CASE n = 0  -> [c EXCEPT !.V[x] = c.V[y]]
      [] n = 1  -> [c EXCEPT !.V[x] = BitOr(c.V[x], c.V[y])]
      [] n = 2  -> [c EXCEPT !.V[x] = BitAnd(c.V[x], c.V[y])]
      [] n = 3  -> [c EXCEPT !.V[x] = BitXor(c.V[x], c.V[y])]
      [] n = 4  -> op_8xy4(c, x, y)
      [] n = 5  -> op_8xy5(c, x, y)
      [] n = 6  -> op_8xy6(c, x)
      [] n = 7  -> op_8xy7(c, x, y)
      [] n = 14 -> op_8xyE(c, x)
      [] OTHER  -> c

\* Mutant of drawPixel: VF is assigned at every pixel, so a later pixel
\* that hits an empty cell clears an earlier collision.
drawPixel_assigning(c, m, x, y, row, col) ==
    LET posX == (c.V[x] + col) % m.screen_width
        posY == (c.V[y] + row) % m.screen_height
        idx  == posY * MAX_WIDTH + posX
        cell == Get(c.display, idx)
    IN [c EXCEPT !.V[15]   = IF cell = 1 THEN 1 ELSE 0,
                 !.display = Put(@, idx, BitXor(cell, 1))]

\* One sprite pixel: the target cell is XORed with 1, VF is set when the
\* cell held 1.  V[x] and V[y] are read here, inside the loop.
drawPixel(c, m, x, y, row, col) ==
    LET posX == (c.V[x] + col) % m.screen_width
        posY == (c.V[y] + row) % m.screen_height
        idx  == posY * MAX_WIDTH + posX
        cell == Get(c.display, idx)
    IN [c EXCEPT !.V[15]   = IF cell = 1 THEN 1 ELSE @,
                 !.display = Put(@, idx, BitXor(cell, 1))]

\* e, evaluated once v has been: operator arguments are evaluated on demand,
\* and a long loop would otherwise be unwound only at its end, nested as
\* deep as the loop is long.
Then(v, e) == IF v = v THEN e ELSE v

\* The inner loop over the columns of one sprite row.
RECURSIVE drawCols(_, _, _, _, _, _, _, _, _)
drawCols(c, m, x, y, row, col, spriteWidth, byte1, byte2) ==
    IF col >= spriteWidth THEN c
    ELSE LET pixelBit == IF col < 8
                         THEN BitAnd(byte1, Shr(\h80, col)) # 0
                         ELSE BitAnd(byte2, Shr(\h80, col - 8)) # 0
             next == IF pixelBit THEN drawPixel(c, m, x, y, row, col) ELSE c
         IN Then(next, drawCols(next, m, x, y, row, col + 1, spriteWidth, byte1, byte2))

\* The outer loop over the sprite's rows; sprite[k] is the byte read from
\* memory[I + k].
RECURSIVE drawRows(_, _, _, _, _, _, _, _)
drawRows(c, m, x, y, row, spriteHeight, spriteWidth, sprite) ==
    IF row >= spriteHeight THEN c
    ELSE LET byte1 == IF spriteWidth = 16 THEN sprite[row * 2] ELSE sprite[row]
             byte2 == IF spriteWidth = 16 THEN sprite[row * 2 + 1] ELSE 0
             next  == drawCols(c, m, x, y, row, 0, spriteWidth, byte1, byte2)
         IN Then(next, drawRows(next, m, x, y, row + 1, spriteHeight, spriteWidth, sprite))

\* Dxyn's choice of sprite shape.
SpriteWidth(m, n) == IF m.extended_mode # 0 /\ n = 0 THEN 16 ELSE 8
SpriteHeight(m, n) == IF m.extended_mode # 0 /\ n = 0 THEN 16 ELSE n
SpriteLen(m, n) == SpriteHeight(m, n) * (SpriteWidth(m, n) \div 8)

\* The byte sequences the draw may read from memory[I ..]: the bytes
\* stored there, and any byte for a read past the end of memory.
SpriteReads(c, len) ==
    LET oob == { k \in 0 .. (len - 1) : c.I + k >= MEMORY_SIZE }
    IN { [k \in 0 .. (len - 1) |->
             IF k \in oob THEN f[k] ELSE Get(c.memory, c.I + k)] :
           f \in [oob -> UBBytes] }

\* Dxyn: draw a sprite.
op_Dxyn(c, m, x, y, n) ==
    LET c1 == [c EXCEPT !.V[15] = 0]
    IN { [c |-> drawRows(c1, m, x, y, 0, SpriteHeight(m, n), SpriteWidth(m, n), sprite),
          ctl |-> "ret"] : sprite \in SpriteReads(c, SpriteLen(m, n)) }
       \cup (IF c.I + SpriteLen(m, n) > MEMORY_SIZE
             THEN { [c |-> c, ctl |-> "crash"] } ELSE {})

\* Ex9E / ExA1: skip on key.  keys[V[x]] with V[x] > 15 is a read past the
\* 16 latches: the value read may be zero or not.
KeyReads(c, x) == IF c.V[x] < 16 THEN {c.keys[c.V[x]] # 0} ELSE BOOLEAN

op_Exkk(c, x, kk) ==
    CASE kk = \h9E -> { [c |-> skipIf(c, k), ctl |-> "ret"] : k \in KeyReads(c, x) }
                      \cup (IF c.V[x] < 16 THEN {} ELSE { [c |-> c, ctl |-> "crash"] })
      [] kk = \hA1 -> { [c |-> skipIf(c, ~k), ctl |-> "ret"] : k \in KeyReads(c, x) }
                      \cup (IF c.V[x] < 16 THEN {} ELSE { [c |-> c, ctl |-> "crash"] })
      [] OTHER     -> { [c |-> c, ctl |-> "ret"] }

op_Fx15(c, x) == [c EXCEPT !.delay_timer = c.V[x]]

op_Fx18(c, x) == [c EXCEPT !.sound_timer = c.V[x]]

op_Fx1E(c, x) == [c EXCEPT !.I = U16(@ + c.V[x])]

op_Fx29(c, x) == [c EXCEPT !.I = U16(FONT_ADDRESS + c.V[x] * 5)]

op_Fx33(c, x, stray) ==
    LET value == c.V[x]
        c1 == StoreMem(c, c.I, value \div 100, stray)
        c2 == StoreMem(c1, c1.I + 1, (value \div 10) % 10, stray)
    IN StoreMem(c2, c2.I + 2, value % 10, stray)

RECURSIVE op_Fx55(_, _, _, _)
op_Fx55(c, x, i, stray) ==
    IF i > x THEN c
    ELSE op_Fx55(StoreMem(c, c.I + i, c.V[i], stray), x, i + 1, stray)

\* Fx65: V[0..x] are loaded from the bytes read at memory[I ..].
op_Fx65(c, x) ==
    { [c EXCEPT !.V = [r \in 0 .. (REGISTER_COUNT - 1) |->
                          IF r <= x THEN bytes[r] ELSE c.V[r]]] :
        bytes \in SpriteReads(c, x + 1) }

\* The outcomes of a store instruction whose last store is at address top;
\* result[s] is the state its stores leave when stray stores behave as s.
Stores(c, top, result) ==
    IF top < MEMORY_SIZE
    THEN { [c |-> result["lost"], ctl |-> "ret"] }
    ELSE { [c |-> result[s], ctl |-> "ret"] : s \in StrayKinds }
         \cup { [c |-> c, ctl |-> "crash"] }

op_Fxkk(c, x, kk) ==
    LET f55 == [s \in StrayKinds |-> op_Fx55(c, x, 0, s)]
        f33 == [s \in StrayKinds |-> op_Fx33(c, x, s)]
    IN CASE kk = \h07 -> { [c |-> [c EXCEPT !.V[x] = c.delay_timer], ctl |-> "ret"] }
         [] kk = \h0A -> { [c |-> c, ctl |-> "wait"] }
         [] kk = \h15 -> { [c |-> op_Fx15(c, x), ctl |-> "ret"] }
         [] kk = \h18 -> { [c |-> op_Fx18(c, x), ctl |-> "ret"] }
         [] kk = \h1E -> { [c |-> op_Fx1E(c, x), ctl |-> "ret"] }
         [] kk = \h29 -> { [c |-> op_Fx29(c, x), ctl |-> "ret"] }
         [] kk = \h33 -> Stores(c, c.I + 2, f33)
         [] kk = \h55 -> Stores(c, c.I + x, f55)
         [] kk = \h65 -> { [c |-> c2, ctl |-> "ret"] : c2 \in op_Fx65(c, x) }
                         \cup (IF c.I + x >= MEMORY_SIZE
                               THEN { [c |-> c, ctl |-> "crash"] } ELSE {})
         [] OTHER     -> { [c |-> c, ctl |-> "ret"] }

\* The end of emulateCycle, and the main loop's 16 ms tick: each timer is
\* decremented when it is not zero.
decrementTimers(c) ==
    [c EXCEPT !.delay_timer = IF @ > 0 THEN @ - 1 ELSE @,
              !.sound_timer = IF @ > 0 THEN @ - 1 ELSE @]

\* ------------------------------------------------------------ emulateCycle
\* The switch on (opcode & 0xF000): the outcomes { [c, ctl] } of the
\* instruction, before the timers are decremented.
dispatch(c, m, op) ==
    LET x   == Shr(BitAnd(op, \h0F00), 8)
        y   == Shr(BitAnd(op, \h00F0), 4)
        kk  == BitAnd(op, \h00FF)
        nnn == BitAnd(op, \h0FFF)
        n   == BitAnd(op, \h000F)
        top == BitAnd(op, \hF000)
        Only(c2) == { [c |-> c2, ctl |-> "ret"] }
    IN CASE top = \h0000 ->
              ( CASE op = \h00E0 -> Only([c EXCEPT !.display = Zeroed])
                  [] op = \h00EE -> op_00EE(c)
                  [] OTHER       -> Only(c) )
         [] top = \h1000 -> Only([c EXCEPT !.pc = nnn])
         [] top = \h2000 -> op_2nnn(c, nnn)
         [] top = \h3000 -> Only(skipIf(c, c.V[x] = kk))
         [] top = \h4000 -> Only(skipIf(c, c.V[x] # kk))
         [] top = \h5000 -> Only(skipIf(c, c.V[x] = c.V[y]))
         [] top = \h6000 -> Only(op_6xkk(c, x, kk))
         [] top = \h7000 -> Only(op_7xkk(c, x, kk))
         [] top = \h8000 -> Only(op_8xyn(c, x, y, n))
         [] top = \h9000 -> Only(skipIf(c, c.V[x] # c.V[y]))
         [] top = \hA000 -> Only([c EXCEPT !.I = nnn])
         [] top = \hB000 -> Only([c EXCEPT !.pc = U16(nnn + c.V[0])])
         [] top = \hC000 -> { [c |-> [c EXCEPT !.V[x] = BitAnd(r, kk)], ctl |-> "ret"] :
                                r \in RandBytes }
         [] top = \hD000 -> op_Dxyn(c, m, x, y, n)
         [] top = \hE000 -> op_Exkk(c, x, kk)
         [] top = \hF000 -> op_Fxkk(c, x, kk)
         [] OTHER        -> Only(c)

\* Emulate one cycle, given the fetched word: the outcomes { [c, m, ctl] }.
\* ctl says how the cycle ends: "ret" (emulateCycle returns), "exit"
\* (exit(0)), "wait" (Fx0A entered its key loop), "crash" (undefined access
\* faulted).
emulateCycle(c0, m, op) ==
    LET c == [c0 EXCEPT !.pc = U16(@ + 2)]
    IN (IF c0.pc + 1 >= MEMORY_SIZE
        THEN { [c |-> c0, m |-> m, ctl |-> "crash"] } ELSE {})
       \cup
       IF BitAnd(op, \hF0FF) = \h00FB
       THEN { [c |-> scroll_horizontal(c, m, 1), m |-> m, ctl |-> "ret"] }
       ELSE IF BitAnd(op, \hF0FF) = \h00FC
       THEN { [c |-> scroll_horizontal(c, m, -1), m |-> m, ctl |-> "ret"] }
       ELSE IF BitAnd(op, \hF0FF) = \h00FD
       THEN { [c |-> c, m |-> m, ctl |-> "exit"] }
       ELSE IF BitAnd(op, \hF0FF) = \h00FE
       THEN { [c |-> [c EXCEPT !.display = Zeroed], m |-> NormalMode, ctl |-> "ret"] }
       ELSE IF BitAnd(op, \hF0FF) = \h00FF
       THEN { [c |-> [c EXCEPT !.display = Zeroed], m |-> ExtendedMode, ctl |-> "ret"] }
       ELSE IF BitAnd(op, \hF000) = \h0000 /\ BitAnd(op, \h00F0) = \h00C0
       THEN { [c |-> scroll_down(c, m, BitAnd(op, \h000F)), m |-> m, ctl |-> "ret"] }
       ELSE { [c   |-> IF o.ctl = "ret" THEN decrementTimers(o.c) ELSE o.c,
               m   |-> m,
               ctl |-> o.ctl] : o \in dispatch(c, m, op) }

\* ------------------------------------------------------------ program images
\* A program image from its 16-bit words, big-endian.
Image(words) ==
    [i \in 1 .. (2 * Len(words)) |->
        IF i % 2 = 1 THEN words[(i + 1) \div 2] \div 256 ELSE words[i \div 2] % 256]

\* The address of the k-th word (k = 0, 1, ...) of a loaded image.
At(k) == START_ADDRESS + 2 * k

\* 1nnn to its own address: the program stops here.
Halt(k) == \h1000 + At(k)

\* Register-register arithmetic: Vx = a; Vy = b; 8xyN; halt.
AluRegs == { <<0, 1>>, <<1, 1>>, <<15, 1>>, <<1, 15>>, <<15, 15>> }
AluVals == { 10, 20, 100, 200, 255 }
AluOps  == { 4, 5, 6, 7, 14 }
AluPrograms ==
    { Image(<< \h6000 + r[1] * 256 + a, \h6000 + r[2] * 256 + b,
               \h8000 + r[1] * 256 + r[2] * 16 + n, Halt(3) >>) :
        r \in AluRegs, a \in AluVals, b \in AluVals, n \in AluOps }

\* Immediate add: Vx = a; Vx += 10; Vx += 10; Vx += k; halt.
AddPrograms ==
    { Image(<< \h6000 + x * 256 + a, \h7000 + x * 256 + 10, \h7000 + x * 256 + 10,
               \h7000 + x * 256 + k, Halt(4) >>) :
        x \in {0, 3, 15}, a \in {0, 250, 255}, k \in {1, 255} }

\* An image too large for memory.
OversizeImage == [i \in 1 .. (MEMORY_SIZE - START_ADDRESS + 1) |-> 0]

\* A key wait followed by skips on the key latches.
KeyPrograms ==
    { Image(<< \hF00A + x * 256, \hE09E + x * 256, \hE0A1 + x * 256, Halt(3), Halt(4) >>) :
        x \in {0, 15} }

\* Sprite drawing: [00FF | 00E0]; I = addr; Vx = a; Vy = b; draw; draw;
\* Vx += 3; draw; I = the glyph "1"; draw 5 rows; halt.
DrawRegs  == { <<0, 1>>, <<15, 1>>, <<1, 15>> }
DrawAt    == { <<0, 0>>, <<125, 62>> }
DrawWhat  == { <<FONT_ADDRESS, 5>>, <<FONT_ADDRESS, 0>>, <<FONT_ADDRESS + 40, 15>>,
               <<MEMORY_SIZE - 1, 2>> }
DrawPrograms ==
    { Image(<< first,
               \hA000 + w[1],
               \h6000 + r[1] * 256 + p[1],
               \h6000 + r[2] * 256 + p[2],
               \hD000 + r[1] * 256 + r[2] * 16 + w[2],
               \hD000 + r[1] * 256 + r[2] * 16 + w[2],
               \h7000 + r[1] * 256 + 3,
               \hD000 + r[1] * 256 + r[2] * 16 + w[2],
               \hA000 + FONT_ADDRESS + 5,
               \hD000 + r[1] * 256 + r[2] * 16 + 5,
               Halt(10) >>) :
        first \in {\h00FF, \h00E0}, r \in DrawRegs, p \in DrawAt, w \in DrawWhat }

\* Calls and returns.
SelfCall   == Image(<< \h2000 + At(0) >>)
BareReturn == Image(<< \h00EE, Halt(1) >>)
CallReturn == Image(<< \h2000 + At(4), Halt(1), 0, 0, \h00EE >>)
\* STACK_SIZE nested calls, then as many returns.
NestedCalls ==
    Image([k \in 1 .. (2 * STACK_SIZE + 1) |->
              IF k = 2 THEN Halt(1)
              ELSE IF k % 2 = 1 /\ k < 2 * STACK_SIZE + 1 THEN \h2000 + At(k + 1)
              ELSE \h00EE])
StackPrograms == { SelfCall, BareReturn, CallReturn, NestedCalls }

\* Key latches: V1 = v; skip if key V1 is down; skip if it is not; halt.
LatchPrograms ==
    { Image(<< \h6100 + v, \hE19E, \hE1A1, Halt(3), Halt(4) >>) : v \in {15, 16, 255} }

\* Register dump past memory: [00FF | 00E0]; I = 0xFFF; V0 = k; I += V0;
\* V0 = v; memory[I] = V0; halt.
StrayPrograms ==
    { Image(<< first, \hAFFF, \h6000 + k, \hF01E, \h6000 + v, \hF055, Halt(6) >>) :
        first \in {\h00FF, \h00E0}, k \in {0, 255}, v \in {1, 255} }

\* Timers: V0 = d; delay = V0; V0 = s; sound = V0; V1 = delay; halt.
TimerPrograms ==
    { Image(<< \h6000 + d, \hF015, \h6000 + t, \hF018, \hF107, Halt(5) >>) :
        d \in {0, 1, 3}, t \in {0, 2} }

\* The largest image that fits: it stops at once, and its last byte is not 0.
FullImage ==
    [i \in 1 .. (MEMORY_SIZE - START_ADDRESS) |->
        IF i = 1 THEN Halt(0) \div 256
        ELSE IF i = 2 THEN Halt(0) % 256
        ELSE IF i = MEMORY_SIZE - START_ADDRESS THEN 255 ELSE 0]

\* V1 = 3; both timers = V1; a key is waited for into V1; halt.
TimedWait == Image(<< \h6103, \hF118, \hF115, \hF10A, Halt(4) >>)

\* Words with top nibble 0, in pairs: the extended opcodes, words that differ
\* from them in the second nibble only, and words that are no instruction.
ZeroWords ==
    { << \h00FF, \h00FE >>, << \h00FE, \h00FF >>, << \h00FB, \h00FB >>,
      << \h00FC, \h00FC >>, << \h00C1, \h00C3 >>, << \h00C0, \h00CF >>,
      << \h01FB, \h02FC >>, << \h05FF, \h04FE >>, << \h06C2, \h0123 >>,
      << \h03FD, \h0000 >>, << \h00FD, \h0000 >> }

\* Mode switches and scrolls: [00FF | 00E0]; I = the glyph "0"; V0 = a;
\* V1 = b; draw 5 rows; both timers = 2; two words of ZeroWords; halt.
ModePrograms ==
    { Image(<< first, \hA000 + FONT_ADDRESS, \h6000 + p[1], \h6100 + p[2], \hD015,
               \h6202, \hF215, \hF218, w[1], w[2], Halt(10) >>) :
        first \in {\h00FF, \h00E0}, p \in DrawAt, w \in ZeroWords }

Programs ==
    AluPrograms \cup AddPrograms \cup KeyPrograms \cup DrawPrograms
        \cup StackPrograms \cup TimerPrograms \cup ModePrograms
        \cup LatchPrograms \cup StrayPrograms
        \cup {OversizeImage, FullImage, TimedWait}

\* The programs that wait for a key, and the image too large to load.
WaitingPrograms == KeyPrograms \cup {TimedWait, OversizeImage}

\* ------------------------------------------------------------ the keyboard
\* The keyboard keys bound to the keypad, in the order of the keypad codes.
KeySyms == << "x", "1", "2", "3", "q", "w", "e", "a",
              "s", "d", "z", "c", "4", "r", "f", "v" >>

\* The keys the input source presses and releases.
Pressable == { KeySyms[i] : i \in 1 .. (MaxKey + 1) }

\* The keys it presses and releases while Fx0A polls.
WaitPressable == { KeySyms[i] : i \in 1 .. (MaxWaitKey + 1) }

\* mapKey: the keypad code of a keyboard key.
mapKey(sym) ==
    CASE sym = "1" -> 1  [] sym = "2" -> 2  [] sym = "3" -> 3  [] sym = "4" -> 12
      [] sym = "q" -> 4  [] sym = "w" -> 5  [] sym = "e" -> 6  [] sym = "r" -> 13
      [] sym = "a" -> 7  [] sym = "s" -> 8  [] sym = "d" -> 9  [] sym = "f" -> 14
      [] sym = "z" -> 10 [] sym = "x" -> 0  [] sym = "c" -> 11 [] sym = "v" -> 15

\* The switch in Fx0A's loop: the value Vx takes for a keyboard key.
waitKey(sym) ==
    CASE sym = "1" -> 1  [] sym = "2" -> 2  [] sym = "3" -> 3  [] sym = "4" -> 12
      [] sym = "q" -> 4  [] sym = "w" -> 5  [] sym = "e" -> 6  [] sym = "r" -> 13
      [] sym = "a" -> 7  [] sym = "s" -> 8  [] sym = "d" -> 9  [] sym = "f" -> 14
      [] sym = "z" -> 10 [] sym = "x" -> 0  [] sym = "c" -> 11 [] sym = "v" -> 15

\* ------------------------------------------------------------ the process
Init ==
    /\ chip8 = initializeChip8
    /\ extended_mode = 0
    /\ screen_width = NORMAL_WIDTH
    /\ screen_height = NORMAL_HEIGHT
    /\ fg = <<255, 255, 255>>
    /\ bg = <<0, 0, 0>>
    /\ running = TRUE
    /\ phase = "load"
    /\ exit_code = -1
    /\ opcode = 0
    /\ before = initializeChip8
    /\ calls = << >>
    /\ ub = 0
    /\ audio = "silence"
    /\ latest = [k \in 0 .. 15 |-> "none"]
    /\ image = << >>

\* main: loadROM succeeds and the main loop starts.
LoadOkOf(roms) ==
    /\ phase = "load"
    /\ \E rom \in roms :
          /\ ~RomTooLarge(rom)
          /\ chip8' = loadROM(chip8, rom)
          /\ before' = loadROM(chip8, rom)
          /\ image' = rom
    /\ phase' = "loop"
    /\ UNCHANGED << extended_mode, screen_width, screen_height, fg, bg,
                    running, exit_code, opcode, calls, ub, audio, latest >>

\* main: loadROM refuses the image and main returns 1.
LoadFailOf(roms) ==
    /\ phase = "load"
    /\ \E rom \in roms : RomTooLarge(rom) /\ image' = rom
    /\ phase' = "exited"
    /\ exit_code' = 1
    /\ UNCHANGED << chip8, extended_mode, screen_width, screen_height, fg, bg,
                    running, opcode, before, calls, ub, audio, latest >>

\* main started on any of the images.
LoadOk == LoadOkOf(Programs)

LoadFail == LoadFailOf(Programs)

\* main started on an image of the programs that wait for a key.
LoadOkWaiting == LoadOkOf(WaitingPrograms)

LoadFailWaiting == LoadFailOf(WaitingPrograms)

\* The main loop's event poll: a key of the keypad goes down.
KeyDown ==
    /\ phase = "loop"
    /\ \E sym \in Pressable :
          /\ chip8' = [chip8 EXCEPT !.keys[mapKey(sym)] = 1]
          /\ latest' = [latest EXCEPT ![mapKey(sym)] = "down"]
    /\ UNCHANGED << extended_mode, screen_width, screen_height, fg, bg,
                    running, phase, exit_code, opcode, before, calls, ub,
                    audio, image >>

\* The main loop's event poll: a key of the keypad goes up.
KeyUp ==
    /\ phase = "loop"
    /\ \E sym \in Pressable :
          /\ chip8' = [chip8 EXCEPT !.keys[mapKey(sym)] = 0]
          /\ latest' = [latest EXCEPT ![mapKey(sym)] = "up"]
    /\ UNCHANGED << extended_mode, screen_width, screen_height, fg, bg,
                    running, phase, exit_code, opcode, before, calls, ub,
                    audio, image >>

\* The main loop's event poll: SDL_QUIT.
Quit ==
    /\ phase = "loop"
    /\ running' = FALSE
    /\ UNCHANGED << chip8, extended_mode, screen_width, screen_height, fg, bg,
                    phase, exit_code, opcode, before, calls, ub,
                    audio, latest, image >>

\* The main loop calls emulateCycle.
Cycle ==
    /\ phase = "loop"
    /\ \E op \in fetchOpcode(chip8) :
       LET outcomes  == emulateCycle(chip8, Mode, op)
           undefined == \E o \in outcomes : o.ctl = "crash"
       IN /\ undefined => ub < MaxUndefined
          /\ \E o \in outcomes :
                /\ opcode' = op
                /\ before' = chip8
                /\ chip8' = o.c
                /\ extended_mode' = o.m.extended_mode
                /\ screen_width' = o.m.screen_width
                /\ screen_height' = o.m.screen_height
                /\ fg' = o.m.fg
                /\ bg' = o.m.bg
                /\ phase' = CASE o.ctl = "ret"   -> "timer"
                              [] o.ctl = "wait"  -> "keywait"
                              [] o.ctl = "exit"  -> "exited"
                              [] o.ctl = "crash" -> "crashed"
                /\ exit_code' = IF o.ctl = "exit" THEN 0 ELSE exit_code
                /\ ub' = IF undefined THEN ub + 1 ELSE ub
                /\ calls' = IF ub > 0 \/ undefined THEN << >>
                            ELSE IF op \div 4096 = 2 THEN Append(calls, chip8.pc)
                            ELSE IF op = \h00EE THEN SubSeq(calls, 1, Len(calls) - 1)
                            ELSE calls
    /\ UNCHANGED << running, audio, latest, image >>

\* Fx0A's loops are in progress: no key-down polled yet ("keywait"), or one
\* polled and the inner loop still polling what is queued ("keydrain").
InWait == phase \in {"keywait", "keydrain"}

\* Fx0A's inner loop polls a key-down of a keypad key: Vx takes its code and
\* key_pressed is set; the break leaves the switch, not the loop.
WaitKeyDown ==
    /\ InWait
    /\ \E sym \in WaitPressable :
          /\ chip8' = [chip8 EXCEPT !.V[Shr(BitAnd(opcode, \h0F00), 8)] = waitKey(sym)]
          /\ latest' = [latest EXCEPT ![mapKey(sym)] = "down"]
    /\ phase' = "keydrain"
    /\ UNCHANGED << extended_mode, screen_width, screen_height, fg, bg,
                    running, exit_code, opcode, before, calls, ub, audio, image >>

\* Fx0A's inner loop polls a key-up: the event is consumed and nothing is
\* done with it.
WaitKeyUp ==
    /\ InWait
    /\ \E sym \in WaitPressable : latest' = [latest EXCEPT ![mapKey(sym)] = "up"]
    /\ UNCHANGED << chip8, extended_mode, screen_width, screen_height, fg, bg,
                    running, phase, exit_code, opcode, before, calls, ub,
                    audio, image >>

\* Fx0A's inner loop polls SDL_QUIT: exit(0).
WaitQuit ==
    /\ InWait
    /\ phase' = "exited"
    /\ exit_code' = 0
    /\ UNCHANGED << chip8, extended_mode, screen_width, screen_height, fg, bg,
                    running, opcode, before, calls, ub,
                    audio, latest, image >>

\* No event is left after a key-down: both loops end and emulateCycle runs
\* to its end.
WaitEnd ==
    /\ phase = "keydrain"
    /\ chip8' = decrementTimers(chip8)
    /\ phase' = "timer"
    /\ UNCHANGED << extended_mode, screen_width, screen_height, fg, bg,
                    running, exit_code, opcode, before, calls, ub,
                    audio, latest, image >>

\* The loop test at the end of an iteration of main's loop.
LoopTest == IF running THEN "loop" ELSE "exited"

\* 16 ms have passed since the last tick: the main loop decrements the timers.
TimerTick ==
    /\ phase = "timer"
    /\ chip8' = decrementTimers(chip8)
    /\ phase' = LoopTest
    /\ exit_code' = IF running THEN exit_code ELSE 0
    /\ UNCHANGED << extended_mode, screen_width, screen_height, fg, bg,
                    running, opcode, before, calls, ub,
                    audio, latest, image >>

\* Fewer than 16 ms have passed: no tick in this iteration.
NoTick ==
    /\ phase = "timer"
    /\ phase' = LoopTest
    /\ exit_code' = IF running THEN exit_code ELSE 0
    /\ UNCHANGED << chip8, extended_mode, screen_width, screen_height, fg, bg,
                    running, opcode, before, calls, ub,
                    audio, latest, image >>

\* The audio device is open from main's SDL_OpenAudioDevice to its
\* SDL_CloseAudioDevice (or exit).
AudioOpen == phase \in {"loop", "keywait", "keydrain", "timer"}

\* The audio thread enters audio_callback.
audio_begin ==
    /\ AudioOpen
    /\ audio # "callback"
    /\ audio' = "callback"
    /\ UNCHANGED << chip8, extended_mode, screen_width, screen_height, fg, bg,
                    running, phase, exit_code, opcode, before, calls, ub,
                    latest, image >>

\* audio_callback reads chip8.sound_timer and fills the stream with a tone
\* when it is not zero, with silence when it is.
audio_callback ==
    /\ audio = "callback"
    /\ audio' = IF chip8.sound_timer > 0 THEN "tone" ELSE "silence"
    /\ UNCHANGED << chip8, extended_mode, screen_width, screen_height, fg, bg,
                    running, phase, exit_code, opcode, before, calls, ub,
                    latest, image >>

Next ==
    \/ LoadOk
    \/ LoadFail
    \/ KeyDown
    \/ KeyUp
    \/ Quit
    \/ Cycle
    \/ WaitKeyDown
    \/ WaitKeyUp
    \/ WaitQuit
    \/ WaitEnd
    \/ TimerTick
    \/ NoTick

\* The interpreter thread alone.  The audio thread writes nothing the
\* interpreter reads, so what holds of the interpreter here holds with the
\* audio thread running beside it.
Spec == Init /\ [][Next]_vars

\* Both threads: the interpreter, and the audio thread running
\* audio_callback at any moment while the audio device is open.
NextThreads ==
    \/ Next
    \/ audio_begin
    \/ audio_callback

SpecThreads == Init /\ [][NextThreads]_vars

\* The interpreter thread under the scheduling the code gives it: main goes
\* on from loadROM, its loop goes on calling emulateCycle and goes on past
\* the timer test, and Fx0A goes on once a key-down is polled and no event
\* is left.  Input events are the environment's: nothing makes one
\* arrive.  The images are those of the programs that wait for a key.
NextWaiting ==
    \/ LoadOkWaiting
    \/ LoadFailWaiting
    \/ KeyDown
    \/ KeyUp
    \/ Quit
    \/ Cycle
    \/ WaitKeyDown
    \/ WaitKeyUp
    \/ WaitQuit
    \/ WaitEnd
    \/ TimerTick
    \/ NoTick

LiveSpec ==
    /\ Init /\ [][NextWaiting]_vars
    /\ WF_vars(LoadOkWaiting \/ LoadFailWaiting)
    /\ WF_vars(Cycle)
    /\ WF_vars(WaitEnd)
    /\ WF_vars(TimerTick \/ NoTick)

\* ------------------------------------------------------------ claims
\* A step in which emulateCycle ran the fetched instruction to its end.
Returned == phase = "loop" /\ phase' = "timer"

\* The fields of an instruction word.
OpTop(op) == op \div 4096
OpX(op)   == (op \div 256) % 16
OpY(op)   == (op \div 16) % 16
OpN(op)   == op % 16
OpKK(op)  == op % 256

\* C1: after 8xy4, VF is 1 iff old Vx + old Vy > 255 and 0 otherwise, for
\* every x and y; for x other than F, Vx is the sum modulo 256.
C1_AddCarry ==
    [][ (Returned /\ OpTop(opcode') = 8 /\ OpN(opcode') = 4) =>
          LET x   == OpX(opcode')
              y   == OpY(opcode')
              sum == chip8.V[x] + chip8.V[y]
          IN /\ chip8'.V[15] = (IF sum > 255 THEN 1 ELSE 0)
             /\ (x # 15 => chip8'.V[x] = sum % 256) ]_vars

\* C2: after 8xy5, VF is 1 exactly when old Vx >= old Vy and Vx is
\* (old Vx - old Vy) mod 256; after 8xy7, VF is 1 exactly when
\* old Vy >= old Vx and Vx is (old Vy - old Vx) mod 256.
C2_SubNotBorrow ==
    [][ /\ (Returned /\ OpTop(opcode') = 8 /\ OpN(opcode') = 5) =>
             LET x == OpX(opcode')
                 y == OpY(opcode')
             IN /\ chip8'.V[15] = (IF chip8.V[x] >= chip8.V[y] THEN 1 ELSE 0)
                /\ (x # 15 => chip8'.V[x] = (256 + chip8.V[x] - chip8.V[y]) % 256)
        /\ (Returned /\ OpTop(opcode') = 8 /\ OpN(opcode') = 7) =>
             LET x == OpX(opcode')
                 y == OpY(opcode')
             IN /\ chip8'.V[15] = (IF chip8.V[y] >= chip8.V[x] THEN 1 ELSE 0)
                /\ (x # 15 => chip8'.V[x] = (256 + chip8.V[y] - chip8.V[x]) % 256)
      ]_vars

\* C3: after 8xy6, VF is bit 0 of the old Vx, and after 8xyE bit 7 of the
\* old Vx, for every x; for x other than F, Vx is the old value shifted by
\* one position.
C3_ShiftFlag ==
    [][ /\ (Returned /\ OpTop(opcode') = 8 /\ OpN(opcode') = 6) =>
             LET x == OpX(opcode')
             IN /\ chip8'.V[15] = chip8.V[x] % 2
                /\ (x # 15 => chip8'.V[x] = chip8.V[x] \div 2)
        /\ (Returned /\ OpTop(opcode') = 8 /\ OpN(opcode') = 14) =>
             LET x == OpX(opcode')
             IN /\ chip8'.V[15] = chip8.V[x] \div 128
                /\ (x # 15 => chip8'.V[x] = (chip8.V[x] * 2) % 256)
      ]_vars

\* The cycle before this step and this step both run the same 7x0A, and
\* Vx was 250 when the first of the two began.
AddTenTwiceFrom250 ==
    /\ Returned
    /\ opcode' = opcode
    /\ OpTop(opcode) = 7 /\ OpKK(opcode) = 10
    /\ before.V[OpX(opcode)] = 250

\* C4 (as stated): from Vx = 250, 7x0A twice in succession leaves Vx = 4.
C4_AddTwiceLeaves4 ==
    [][ AddTenTwiceFrom250 => chip8'.V[OpX(opcode)] = 4 ]_vars

\* C4 (amended): from Vx = 250, 7x0A twice in succession leaves Vx = 14,
\* which is 250 + 10 + 10 = 270 reduced modulo 256.
C4_AddTwiceLeaves14 ==
    [][ AddTenTwiceFrom250 => chip8'.V[OpX(opcode)] = 14 ]_vars

\* The word stored at address a.
WordAt(a) == Get(chip8.memory, a) * 256 + Get(chip8.memory, a + 1)

\* C4's case: Vx = 250 was set by 6xFA, and the two 7x0A that follow it
\* have both run.
C4_Witness ==
    /\ phase = "timer"
    /\ OpTop(opcode) = 7 /\ OpKK(opcode) = 10
    /\ WordAt(chip8.pc - 2) = opcode
    /\ WordAt(chip8.pc - 4) = opcode
    /\ WordAt(chip8.pc - 6) = \h6000 + OpX(opcode) * 256 + 250
    /\ before.V[OpX(opcode)] = 4
    /\ chip8.V[OpX(opcode)] = 14

\* C5: after Dxyn, VF is 1 if and only if at least one display cell changed
\* from 1 to 0 during the draw, and 0 otherwise, in both modes, for both
\* sprite shapes and whatever VF held before.
C5_CollisionFlag ==
    [][ (Returned /\ OpTop(opcode') = 13) =>
          chip8'.V[15] =
             (IF \E idx \in DOMAIN chip8.display :
                    chip8.display[idx] = 1 /\ Get(chip8'.display, idx) = 0
              THEN 1 ELSE 0) ]_vars

\* C5's case: a 16x16 draw in extended mode has turned a cell off, with VF
\* other than 0 and 1 before it.
C5_Witness ==
    /\ phase = "timer"
    /\ OpTop(opcode) = 13 /\ OpN(opcode) = 0
    /\ extended_mode = 1
    /\ before.V[15] > 1
    /\ chip8.V[15] = 1
    /\ \E idx \in DOMAIN before.display :
          before.display[idx] = 1 /\ Get(chip8.display, idx) = 0

\* The sprite Dxyn draws in state c: its shape, and whether bit (row, col)
\* is set in memory[I ..].
SpriteBit(c, m, n, row, col) ==
    LET byte == Get(c.memory, c.I + row * (SpriteWidth(m, n) \div 8) + col \div 8)
    IN (byte \div Pow2(7 - (col % 8))) % 2 = 1

SpriteBits(c, m, n) ==
    { rc \in (0 .. (SpriteHeight(m, n) - 1)) \X (0 .. (SpriteWidth(m, n) - 1)) :
         SpriteBit(c, m, n, rc[1], rc[2]) }

\* The cells the sprite's set bits fall on, from the coordinates vx, vy.
SpriteCells(c, m, n, vx, vy) ==
    { ((vy + rc[1]) % m.screen_height) * MAX_WIDTH + ((vx + rc[2]) % m.screen_width) :
         rc \in SpriteBits(c, m, n) }

\* The sprite lies inside memory.
SpriteInMemory(c, m, n) == c.I + SpriteLen(m, n) <= MEMORY_SIZE

\* C6: Dxyn toggles exactly the cells at column (Vx+col) mod width and row
\* (Vy+row) mod height for each set bit of the sprite, with Vx and Vy the
\* values held when the instruction starts (x, y in 0..15, F included);
\* every other cell of the bitmap is unchanged.
C6_DrawToggles ==
    [][ (Returned /\ OpTop(opcode') = 13
           /\ SpriteInMemory(chip8, Mode, OpN(opcode'))) =>
          LET cells == SpriteCells(chip8, Mode, OpN(opcode'),
                                   chip8.V[OpX(opcode')], chip8.V[OpY(opcode')])
          IN \A idx \in cells \cup DOMAIN chip8.display \cup DOMAIN chip8'.display :
                Get(chip8'.display, idx) =
                   IF idx \in cells THEN 1 - Get(chip8.display, idx)
                   ELSE Get(chip8.display, idx) ]_vars

\* C7: the same Dxyn twice in succession, with I, the sprite bytes and the
\* coordinate registers unchanged between the two draws, leaves the display
\* as it was before the first draw, and VF after the second draw is 1
\* exactly when the sprite has a set bit.
C7_DoubleDraw ==
    [][ (/\ Returned /\ OpTop(opcode') = 13 /\ opcode' = opcode
         /\ chip8.I = before.I
         /\ SpriteInMemory(chip8, Mode, OpN(opcode))
         /\ SpriteBits(chip8, Mode, OpN(opcode)) = SpriteBits(before, Mode, OpN(opcode))
         /\ chip8.V[OpX(opcode)] = before.V[OpX(opcode)]
         /\ chip8.V[OpY(opcode)] = before.V[OpY(opcode)]) =>
          /\ chip8'.display = before.display
          /\ chip8'.V[15] = (IF SpriteBits(chip8, Mode, OpN(opcode)) # {} THEN 1 ELSE 0)
      ]_vars

\* C8: calls and returns are last-in-first-out.  While no undefined access
\* has happened, sp is the number of calls not yet returned from (at most
\* STACK_SIZE), and a 00EE puts pc just after the latest such call.
C8_CallReturnLifo ==
    [][ /\ (Returned /\ ub' = 0 /\ OpTop(opcode') = 2) =>
             /\ chip8'.sp = Len(calls) + 1
             /\ chip8'.sp <= STACK_SIZE
             /\ chip8'.pc = opcode' % 4096
        /\ (Returned /\ ub' = 0 /\ opcode' = \h00EE) =>
             /\ Len(calls) >= 1
             /\ chip8'.pc = calls[Len(calls)] + 2
             /\ chip8'.sp = Len(calls) - 1
      ]_vars

\* C8's case: STACK_SIZE nested calls have been made and the last of as
\* many returns has run: pc is just after the first call, at 0x202, sp is 0.
C8_Witness ==
    /\ phase = "timer"
    /\ opcode = \h00EE
    /\ ub = 0
    /\ before.sp = 1
    /\ chip8.sp = 0
    /\ chip8.pc = START_ADDRESS + 2
    /\ calls = << >>
    /\ \A s \in 0 .. (STACK_SIZE - 1) : chip8.stack[s] # 0

\* C9: in every reachable state sp is in 0..16, and the stack slot written
\* by the latest 2nnn, or read by the latest 00EE, has an index in 0..15.
C9_StackInBounds ==
    /\ chip8.sp \in 0 .. STACK_SIZE
    /\ (phase # "load" /\ OpTop(opcode) = 2) => before.sp \in 0 .. (STACK_SIZE - 1)
    /\ (phase # "load" /\ opcode = \h00EE) => before.sp - 1 \in 0 .. (STACK_SIZE - 1)

\* C10: across every step, delay_timer does not increase unless the step
\* executes Fx15, and sound_timer does not increase unless it executes Fx18.
C10_TimersNeverIncrease ==
    [][ /\ chip8'.delay_timer > chip8.delay_timer =>
             (Returned /\ OpTop(opcode') = 15 /\ OpKK(opcode') = \h15)
        /\ chip8'.sound_timer > chip8.sound_timer =>
             (Returned /\ OpTop(opcode') = 15 /\ OpKK(opcode') = \h18)
      ]_vars

\* A step in which the main loop called emulateCycle.
Cycled == phase = "loop" /\ phase' # "loop"

\* The display-mode globals are as they were.
ModeKept ==
    /\ extended_mode' = extended_mode
    /\ screen_width' = screen_width
    /\ screen_height' = screen_height

\* Every cell of the display bitmap of c is 0.
Blank(c) == \A idx \in DOMAIN c.display : c.display[idx] = 0

\* The words the extended opcodes are: 00FB .. 00FF and 00C0 .. 00CF.
ExtendedWords == (\h00FB .. \h00FF) \cup (\h00C0 .. \h00CF)

\* C11: extended opcodes are recognised by their full 16-bit pattern: a
\* word with top nibble 0 that is none of 00FB..00FF, 00Cn, 00E0, 00EE
\* changes neither the display, the mode nor the running state of the
\* process.
C11_FullPattern ==
    [][ (Cycled /\ ub' = 0 /\ OpTop(opcode') = 0
           /\ opcode' \notin ExtendedWords \cup {\h00E0, \h00EE}) =>
          /\ chip8'.display = chip8.display
          /\ ModeKept
          /\ phase' # "exited" ]_vars

\* C12: 00FF then 00FE, from either mode and any display content, ends in
\* standard mode with logical dimensions 64x32, and immediately after each
\* of the two instructions every cell of the display bitmap is 0.
C12_ModeRoundTrip ==
    [][ /\ (Cycled /\ opcode' = \h00FF) => Blank(chip8')
        /\ (Cycled /\ opcode' = \h00FE /\ opcode = \h00FF) =>
              /\ Blank(chip8')
              /\ extended_mode' = 0
              /\ screen_width' = 64
              /\ screen_height' = 32 ]_vars

\* C12's case: a program that entered extended mode and drew a glyph has
\* then run 00FF and 00FE.
C12_Witness ==
    /\ phase = "timer"
    /\ opcode = \h00FE
    /\ WordAt(chip8.pc - 4) = \h00FF
    /\ WordAt(START_ADDRESS) = \h00FF
    /\ WordAt(START_ADDRESS + 8) = \hD015
    /\ extended_mode = 0
    /\ screen_width = 64

\* The latest cycle fetched Fx0A.
InFx0A == OpTop(opcode) = 15 /\ OpKK(opcode) = \h0A

\* C13: while Fx0A waits, pc and the registers do not change until a
\* key-down for a keypad key is delivered; that event ends the wait with
\* Vx the key's code and pc at the instruction after the Fx0A.
C13_KeyWait ==
    [][ /\ phase = "keywait" =>
              \/ /\ phase' = "keywait"
                 /\ chip8'.pc = chip8.pc /\ chip8'.V = chip8.V /\ chip8'.I = chip8.I
                 /\ \A k \in 0 .. 15 : latest'[k] = "down" => latest[k] = "down"
              \/ /\ phase' = "keydrain"
                 /\ InFx0A
                 /\ \E k \in 0 .. 15 :
                       /\ latest' = [latest EXCEPT ![k] = "down"]
                       /\ chip8'.V = [chip8.V EXCEPT ![OpX(opcode)] = k]
                 /\ chip8'.I = chip8.I
                 /\ chip8'.pc = chip8.pc
                 /\ chip8.pc = before.pc + 2
              \/ phase' = "exited"
        /\ phase = "keydrain" =>
              /\ phase' \in {"keydrain", "timer", "exited"}
              /\ chip8'.pc = chip8.pc /\ chip8'.V = chip8.V /\ chip8'.I = chip8.I ]_vars

\* C14: once the quit signal has been delivered, the process eventually
\* exits with code 0 with no further input event (unless an undefined access
\* intervenes).
C14_QuitTerminates ==
    (~running /\ ub = 0) ~> ((phase = "exited" /\ exit_code = 0) \/ ub > 0)

\* C15: the audio callback's read of sound_timer is synchronized with the
\* interpreter's writes: no step of the interpreter writes sound_timer
\* (Fx18, or a timer decrement) while audio_callback is running.
C15_SoundTimerSynchronized ==
    [][ audio = "callback" => chip8'.sound_timer = chip8.sound_timer ]_vars

Cell(c, x, y) == Get(c.display, y * MAX_WIDTH + x)

\* The words of the scroll instructions.
ScrollWords == {\h00FB, \h00FC} \cup (\h00C0 .. \h00CF)

\* C17: the scrolls are shifts with zero fill inside the logical region of
\* width W and height H: 00FB moves each cell 4 to the right, 00FC 4 to the
\* left, 00Cn n down; vacated cells are 0; cells outside the region and all
\* registers are unchanged.
C17_Scroll ==
    [][ (Cycled /\ opcode' \in ScrollWords) =>
          LET W == screen_width
              H == screen_height
              n == OpN(opcode')
          IN /\ \A x \in 0 .. (MAX_WIDTH - 1), y \in 0 .. (MAX_HEIGHT - 1) :
                   Cell(chip8', x, y) =
                      IF x < W /\ y < H
                      THEN CASE opcode' = \h00FB ->
                                   (IF x >= 4 THEN Cell(chip8, x - 4, y) ELSE 0)
                             [] opcode' = \h00FC ->
                                   (IF x < W - 4 THEN Cell(chip8, x + 4, y) ELSE 0)
                             [] OTHER ->
                                   (IF y >= n THEN Cell(chip8, x, y - n) ELSE 0)
                      ELSE Cell(chip8, x, y)
             /\ chip8'.V = chip8.V
             /\ chip8'.I = chip8.I
             /\ chip8'.sp = chip8.sp
             /\ ModeKept ]_vars

\* C17's case: 00FB has run on a display with a lit cell in the last 4
\* columns of the region, which is dropped, and a lit cell left of them,
\* which has moved 4 to the right.
C17_Witness ==
    /\ phase = "timer"
    /\ opcode = \h00FB
    /\ \E idx \in DOMAIN before.display :
          /\ ColOf(idx) >= screen_width - 4
          /\ Get(chip8.display, idx + 4) = 0
    /\ \E idx \in DOMAIN before.display :
          /\ ColOf(idx) < screen_width - 4
          /\ Get(chip8.display, idx + 4) = 1
          /\ Get(before.display, idx + 4) = 0

\* A step in which emulateCycle ran to its end with no undefined access,
\* from the main loop's call or from Fx0A's wait.
CycleEnded == phase \in {"loop", "keydrain"} /\ phase' = "timer" /\ ub' = ub

\* A timer after a decrement.
Decremented(t) == IF t > 0 THEN t - 1 ELSE 0

\* C18: every instruction cycle, whatever its opcode, decrements
\* delay_timer and sound_timer by one at its end when they are not zero
\* (Fx15 and Fx18 set the timer the decrement then applies to).
C18_EveryCycleDecrements ==
    [][ CycleEnded =>
          LET x == OpX(opcode')
              d == IF OpTop(opcode') = 15 /\ OpKK(opcode') = \h15
                   THEN chip8.V[x] ELSE chip8.delay_timer
              t == IF OpTop(opcode') = 15 /\ OpKK(opcode') = \h18
                   THEN chip8.V[x] ELSE chip8.sound_timer
          IN /\ chip8'.delay_timer = Decremented(d)
             /\ chip8'.sound_timer = Decremented(t) ]_vars

\* C19: for every key k in 0..15, keys[k] is 1 exactly when the latest
\* event delivered for key k was a key-down.
C19_LatchConsistent ==
    \A k \in 0 .. 15 : (chip8.keys[k] = 1) <=> (latest[k] = "down")

\* The process no longer runs, or has made an undefined access.
Stopped == phase \in {"exited", "crashed"} \/ ub > 0

\* C20: a timer that is not zero eventually reaches 0 as long as the
\* process keeps running, also while Fx0A waits for a key.
C20_TimersRunDown ==
    /\ (chip8.sound_timer > 0) ~> (chip8.sound_timer = 0 \/ Stopped)
    /\ (chip8.delay_timer > 0) ~> (chip8.delay_timer = 0 \/ Stopped)

\* A step in which emulateCycle executed Ex9E or ExA1.
KeySkipped == Cycled /\ OpTop(opcode') = 14 /\ OpKK(opcode') \in {\h9E, \hA1}

\* C22: Ex9E and ExA1 only read a key latch of index 0..15, whatever value
\* Vx holds when they execute.
C22_KeyIndexInBounds ==
    [][ KeySkipped => chip8.V[OpX(opcode')] < 16 ]_vars

\* C21: in standard mode every cell of the bitmap outside the 64x32 logical
\* region is 0, and in both modes every cell of the bitmap is 0 or 1.
C21_BitmapWellFormed ==
    /\ extended_mode = 0 =>
          \A i \in DOMAIN chip8.display :
              chip8.display[i] = 0 \/ (ColOf(i) < NORMAL_WIDTH /\ RowOf(i) < NORMAL_HEIGHT)
    /\ \A i \in DOMAIN chip8.display : chip8.display[i] \in {0, 1}

====
